---- MODULE Spec2Model ----
(***************************************************************************)
(* Model of script.js, the Global Currency Converter: two module-level     *)
(* variables (availableCurrencies, currentRates), the DOM elements the     *)
(* script reads and writes, the asynchronous fetchCurrencyCodes and        *)
(* fetchRates calls suspended at their awaits, and the three listeners     *)
(* registered on DOMContentLoaded.                                         *)
(*                                                                         *)
(* Numbers are fixed-point with five decimals (Scale units per 1).  An     *)
(* object of rates is the sequence of its <<code, rate>> properties in     *)
(* property order, which is what Object.keys observes.                     *)
(***************************************************************************)
EXTENDS Integers, Sequences, FiniteSets, TLC

VARIABLES availableCurrencies, currentRates, dom, inflight, nextId,
          ratesTag, bootstrap, ev

vars == <<availableCurrencies, currentRates, dom, inflight, nextId,
          ratesTag, bootstrap, ev>>

-----------------------------------------------------------------------------
(* Bounds and input domains *)

\* Total number of requests the model lets the page issue (bootstrap included).
MaxRequests == 3

\* One unit, in fixed-point representation (five decimals).
Scale == 10 * 10 * 10 * 10 * 10

\* The currency codes the provider knows, and their order under Array.sort().
Codes == {"INR", "USD"}
CodeOrder == <<"INR", "USD">>

\* The value of a <select> with no selected option.
NoValue == ""

\* Object.keys({})[0], and the result of a property read that misses.
UndefinedKey == "<undefined>"
Undefined == 0 - 1

\* Texts the user may have typed in the amount input.
AmountInputs ==
    { <<"a", "b", "c">>, <<"0">>, <<"-", "5">>, <<"1", "0", "0">> }

\* Rate of one unit of base b in currency c, as the provider reports it.
\* (1 USD = 83.12345 INR, 1 INR = 0.012 USD)
ProviderRate(b, c) ==
    IF b = c THEN Scale
    ELSE IF b = "USD" THEN 8312345
    ELSE 1200

\* The rate objects a response for base b may carry: base first (what the
\* provider sends today), keys in alphabetical order, and the empty object;
\* the bootstrap response may also leave the base out.
BaseFirst(b) ==
    <<<<b, Scale>>>> \o
    [i \in 1..Len(SelectSeq(CodeOrder, LAMBDA c : c # b)) |->
        <<SelectSeq(CodeOrder, LAMBDA c : c # b)[i],
          ProviderRate(b, SelectSeq(CodeOrder, LAMBDA c : c # b)[i])>>]
KeySorted(b) == [i \in 1..Len(CodeOrder) |-> <<CodeOrder[i], ProviderRate(b, CodeOrder[i])>>]
WithoutBase(b) == Tail(BaseFirst(b))
RateMaps(b) == { BaseFirst(b), KeySorted(b), <<>> }
CodesMaps(b) == { BaseFirst(b), WithoutBase(b), <<>> }

\* A request for the empty code is answered as the provider chooses.
ResponseMaps(b) == IF b \in Codes THEN RateMaps(b) ELSE RateMaps("USD")

-----------------------------------------------------------------------------
(* Objects of rates *)

Keys(m) == [i \in 1..Len(m) |-> m[i][1]]
KeySet(m) == { m[i][1] : i \in 1..Len(m) }
FirstKey(m) == IF Len(m) = 0 THEN UndefinedKey ELSE m[1][1]
Lookup(m, code) ==
    IF code \in KeySet(m)
    THEN (CHOOSE p \in { m[i] : i \in 1..Len(m) } : p[1] = code)[2]
    ELSE Undefined

-----------------------------------------------------------------------------
(* Numbers and formatting *)

Digit(ch) ==
    CASE ch = "0" -> 0 [] ch = "1" -> 1 [] ch = "2" -> 2 [] ch = "3" -> 3
      [] ch = "4" -> 4 [] ch = "5" -> 5 [] ch = "6" -> 6 [] ch = "7" -> 7
      [] ch = "8" -> 8 [] ch = "9" -> 9 [] OTHER -> Undefined

RECURSIVE DigitsValue(_, _)
DigitsValue(s, acc) ==
    IF s = <<>> \/ Digit(Head(s)) = Undefined THEN acc
    ELSE DigitsValue(Tail(s), 10 * acc + Digit(Head(s)))

\* parseFloat on a text of sign and digits: the longest numeric prefix, NaN
\* when there is none.
parseFloat(s) ==
    LET neg  == s # <<>> /\ Head(s) = "-"
        body == IF s # <<>> /\ Head(s) \in {"-", "+"} THEN Tail(s) ELSE s
    IN IF body = <<>> \/ Digit(Head(body)) = Undefined
       THEN [nan |-> TRUE, val |-> 0]
       ELSE [nan |-> FALSE,
             val |-> (IF neg THEN 0 - 1 ELSE 1) * DigitsValue(body, 0) * Scale]

\* x rounded to d fractional digits (half away from zero, x >= 0).
RoundTo(x, d) ==
    LET unit == IF d = 4 THEN 10 ELSE 1000
    IN ((x + unit \div 2) \div unit) * unit

toFixed4(x) == RoundTo(x, 4)

\* Intl.NumberFormat accepts every well-formed three-letter code.
IntlAccepts(code) == code \in Codes

formatCurrency(amount, currencyCode) ==
    IF IntlAccepts(currencyCode)
    THEN <<"intl", currencyCode,
           RoundTo(amount, IF amount > 1000 * Scale THEN 2 ELSE 4)>>
    ELSE <<"plain", currencyCode, toFixed4(amount)>>

Mul(a, b) == (a \div Scale) * b + ((a % Scale) * b) \div Scale

-----------------------------------------------------------------------------
(* DOM helpers *)

\* Variant: showing an error leaves the result panel as it is.
showErrorKeepingResult(d, message) ==
    [d EXCEPT !.loadingHidden = TRUE,
              !.formHidden = FALSE,
              !.errorHidden = FALSE,
              !.errorText = message]

showError(d, message) ==
    [d EXCEPT !.loadingHidden = TRUE,
              !.resultHidden = TRUE,
              !.formHidden = FALSE,
              !.errorHidden = FALSE,
              !.errorText = message]

showLoading(d, show) ==
    [d EXCEPT !.loadingHidden = ~show,
              !.formHidden = show,
              !.errorHidden = TRUE,
              !.convertDisabled = show]

\* Assigning select.value: the option with that value, or none.
SelectValue(options, v) ==
    IF \E i \in 1..Len(options) : options[i] = v THEN v ELSE NoValue

SortCodes(codes) ==
    SelectSeq(CodeOrder, LAMBDA c : \E i \in 1..Len(codes) : codes[i] = c)

\* Variant: the base of the bootstrap request is offered even when the
\* response does not list it.
populateDropdownsWithBase(d, codes) ==
    LET opts == SortCodes(codes \o <<"USD">>)
    IN [d EXCEPT !.options = opts,
                 !.sourceValue = SelectValue(opts, "USD"),
                 !.targetValue = SelectValue(opts, "INR"),
                 !.convertDisabled = FALSE]

populateDropdowns(d, codes) ==
    LET opts == SortCodes(codes)
    IN [d EXCEPT !.options = opts,
                 !.sourceValue = SelectValue(opts, "USD"),
                 !.targetValue = SelectValue(opts, "INR"),
                 !.convertDisabled = FALSE]

-----------------------------------------------------------------------------
(* performConversion *)

AmountInvalidMsg == <<"Please enter a valid amount greater than zero.">>
RateUnavailableMsg(targetCode, sourceCode) ==
    <<"Exchange rate for", targetCode, "not available when using", sourceCode, "as base.">>

\* Variant: no special case for source = target.
ConversionWithoutTrivialCase(d, rates) ==
    LET amount == parseFloat(d.amountInput)
        rate   == Lookup(rates, d.targetValue)
    IN IF amount.nan \/ amount.val <= 0
          THEN [kind |-> "invalid", amount |-> 0, rate |-> Undefined, converted |-> 0]
       ELSE IF rate = Undefined
          THEN [kind |-> "unavailable", amount |-> amount.val, rate |-> Undefined,
                converted |-> 0]
       ELSE [kind |-> "computed", amount |-> amount.val, rate |-> rate,
             converted |-> Mul(amount.val, rate)]

\* Variant: the rate is read under the source code instead of the target code.
ConversionRateOfSource(d, rates) ==
    LET amount == parseFloat(d.amountInput)
        rate   == Lookup(rates, d.sourceValue)
    IN IF amount.nan \/ amount.val <= 0
          THEN [kind |-> "invalid", amount |-> 0, rate |-> Undefined, converted |-> 0]
       ELSE IF d.sourceValue = d.targetValue
          THEN [kind |-> "same", amount |-> amount.val, rate |-> Undefined,
                converted |-> amount.val]
       ELSE IF rate = Undefined
          THEN [kind |-> "unavailable", amount |-> amount.val, rate |-> Undefined,
                converted |-> 0]
       ELSE [kind |-> "computed", amount |-> amount.val, rate |-> rate,
             converted |-> Mul(amount.val, rate)]

\* Variant: an amount of zero passes the validation.
ConversionZeroAccepted(d, rates) ==
    LET amount == parseFloat(d.amountInput)
        rate   == Lookup(rates, d.targetValue)
    IN IF amount.nan \/ amount.val < 0
          THEN [kind |-> "invalid", amount |-> 0, rate |-> Undefined, converted |-> 0]
       ELSE IF d.sourceValue = d.targetValue
          THEN [kind |-> "same", amount |-> amount.val, rate |-> Undefined,
                converted |-> amount.val]
       ELSE IF rate = Undefined
          THEN [kind |-> "unavailable", amount |-> amount.val, rate |-> Undefined,
                converted |-> 0]
       ELSE [kind |-> "computed", amount |-> amount.val, rate |-> rate,
             converted |-> Mul(amount.val, rate)]

\* Which branch performConversion takes, with the values it computes.
Conversion(d, rates) ==
    LET amount == parseFloat(d.amountInput)
        rate   == Lookup(rates, d.targetValue)
    IN IF amount.nan \/ amount.val <= 0
          THEN [kind |-> "invalid", amount |-> 0, rate |-> Undefined, converted |-> 0]
       ELSE IF d.sourceValue = d.targetValue
          THEN [kind |-> "same", amount |-> amount.val, rate |-> Undefined,
                converted |-> amount.val]
       ELSE IF rate = Undefined
          THEN [kind |-> "unavailable", amount |-> amount.val, rate |-> Undefined,
                converted |-> 0]
       ELSE [kind |-> "computed", amount |-> amount.val, rate |-> rate,
             converted |-> Mul(amount.val, rate)]

\* Variant: a missing rate also clears the texts of the result panel.
performConversionClearingResult(d, rates) ==
    LET d0 == [d EXCEPT !.errorHidden = TRUE]
        c  == Conversion(d, rates)
    IN CASE c.kind = "invalid" -> showError(d0, AmountInvalidMsg)
         [] c.kind = "same" ->
              [d0 EXCEPT !.resultAmount = formatCurrency(c.amount, d.targetValue),
                         !.exchangeRate = <<d.sourceValue, Scale, d.targetValue>>,
                         !.resultHidden = FALSE]
         [] c.kind = "unavailable" ->
              [showError(d0, RateUnavailableMsg(d.targetValue, d.sourceValue))
                 EXCEPT !.resultHidden = TRUE, !.resultAmount = <<>>, !.exchangeRate = <<>>]
         [] OTHER ->
              [d0 EXCEPT !.resultAmount = formatCurrency(c.converted, d.targetValue),
                         !.exchangeRate = <<d.sourceValue, toFixed4(c.rate), d.targetValue>>,
                         !.resultHidden = FALSE]

performConversion(d, rates) ==
    LET d0 == [d EXCEPT !.errorHidden = TRUE]
        c  == Conversion(d, rates)
    IN CASE c.kind = "invalid" -> showError(d0, AmountInvalidMsg)
         [] c.kind = "same" ->
              [d0 EXCEPT !.resultAmount = formatCurrency(c.amount, d.targetValue),
                         !.exchangeRate = <<d.sourceValue, Scale, d.targetValue>>,
                         !.resultHidden = FALSE]
         [] c.kind = "unavailable" ->
              [showError(d0, RateUnavailableMsg(d.targetValue, d.sourceValue))
                 EXCEPT !.resultHidden = TRUE]
         [] OTHER ->
              [d0 EXCEPT !.resultAmount = formatCurrency(c.converted, d.targetValue),
                         !.exchangeRate = <<d.sourceValue, toFixed4(c.rate), d.targetValue>>,
                         !.resultHidden = FALSE]

-----------------------------------------------------------------------------
(* State *)

\* What the last step did: the handler that ran, the branch performConversion
\* took in it ("none" when it was not called), whether a fetch failed in it,
\* and the rates of the response body a fetchRates received in it.
NoConv == [kind |-> "none", amount |-> 0, rate |-> Undefined, converted |-> 0]
EventWithBody(op, conv, failed, body) ==
    [op |-> op, conv |-> conv.kind, failed |-> failed, body |-> body]
Event(op, conv, failed) == EventWithBody(op, conv, failed, <<>>)

\* A call suspended at its awaits.  The continuation between await fetch(...)
\* and await response.json() only tests response.ok, so the two awaits of a
\* call settle in one step.
Request(id, kind, base) == [id |-> id, kind |-> kind, base |-> base]

\* The page as the HTML delivers it, before any script has run.
InitialDom(amountText) ==
    [loadingHidden |-> TRUE, formHidden |-> FALSE,
     errorHidden |-> TRUE, errorText |-> <<>>,
     resultHidden |-> TRUE, resultAmount |-> <<>>, exchangeRate |-> <<>>,
     convertDisabled |-> FALSE,
     amountInput |-> amountText,
     options |-> <<>>, sourceValue |-> NoValue, targetValue |-> NoValue]

\* The state once the DOMContentLoaded listener has returned: the listeners
\* are registered and fetchCurrencyCodes is suspended at its fetch.  The HTML
\* is not part of the sources: the selects start without options (the script
\* fills them) and the result panel and error banner start hidden.
Init ==
    /\ availableCurrencies = <<>>
    /\ currentRates = <<>>
    /\ \E a \in AmountInputs : dom = showLoading(InitialDom(a), TRUE)
    /\ inflight = { Request(1, "codes", "USD") }
    /\ nextId = 2
    /\ ratesTag = [id |-> 0, base |-> UndefinedKey]
    /\ bootstrap = "pending"
    /\ ev = Event("DOMContentLoaded", NoConv, FALSE)

-----------------------------------------------------------------------------
(* fetchRates, up to its first await *)

fetchRates(d, baseCode, op) ==
    /\ nextId <= MaxRequests
    /\ dom' = showLoading(d, TRUE)
    /\ inflight' = inflight \cup { Request(nextId, "rates", baseCode) }
    /\ nextId' = nextId + 1
    /\ ev' = Event(op, NoConv, FALSE)
    /\ UNCHANGED <<availableCurrencies, currentRates, ratesTag, bootstrap>>

-----------------------------------------------------------------------------
(* User input that no listener observes *)

SetAmount(a) ==
    /\ a # dom.amountInput
    /\ dom' = [dom EXCEPT !.amountInput = a]
    /\ ev' = Event("input", NoConv, FALSE)
    /\ UNCHANGED <<availableCurrencies, currentRates, inflight, nextId, ratesTag, bootstrap>>

SetTarget(code) ==
    /\ code # dom.targetValue
    /\ SelectValue(dom.options, code) = code
    /\ dom' = [dom EXCEPT !.targetValue = code]
    /\ ev' = Event("input", NoConv, FALSE)
    /\ UNCHANGED <<availableCurrencies, currentRates, inflight, nextId, ratesTag, bootstrap>>

-----------------------------------------------------------------------------
(* Listeners *)

\* click on convertBtn (a disabled button dispatches no click)
ConvertClick ==
    /\ ~dom.convertDisabled
    /\ IF dom.sourceValue # FirstKey(currentRates)
       THEN fetchRates(dom, dom.sourceValue, "click")
       ELSE /\ dom' = performConversion(dom, currentRates)
            /\ ev' = Event("click", Conversion(dom, currentRates), FALSE)
            /\ UNCHANGED <<availableCurrencies, currentRates, inflight, nextId,
                           ratesTag, bootstrap>>

\* Variant: swap fetches only when the held rates do not start with the new
\* source, as the other two listeners do.
swapCurrenciesFetchIfStale ==
    LET temp == dom.sourceValue
        d1   == [dom EXCEPT !.sourceValue = SelectValue(dom.options, dom.targetValue)]
        d2   == [d1 EXCEPT !.targetValue = SelectValue(dom.options, temp)]
    IN IF d2.sourceValue # FirstKey(currentRates)
       THEN fetchRates(d2, d2.sourceValue, "swap")
       ELSE /\ dom' = d2
            /\ ev' = Event("swap", NoConv, FALSE)
            /\ UNCHANGED <<availableCurrencies, currentRates, inflight, nextId,
                           ratesTag, bootstrap>>

\* click on swapBtn
swapCurrencies ==
    LET temp == dom.sourceValue
        d1   == [dom EXCEPT !.sourceValue = SelectValue(dom.options, dom.targetValue)]
        d2   == [d1 EXCEPT !.targetValue = SelectValue(dom.options, temp)]
    IN fetchRates(d2, d2.sourceValue, "swap")

\* change on sourceCurrencySelect: the user picks another option
SourceChange(code) ==
    /\ code # dom.sourceValue
    /\ SelectValue(dom.options, code) = code
    /\ LET d1 == [dom EXCEPT !.sourceValue = code]
       IN IF code # FirstKey(currentRates)
          THEN fetchRates(d1, code, "change")
          ELSE /\ dom' = d1
               /\ ev' = Event("change", NoConv, FALSE)
               /\ UNCHANGED <<availableCurrencies, currentRates, inflight, nextId,
                              ratesTag, bootstrap>>

-----------------------------------------------------------------------------
(* Continuations of the suspended fetches *)

CodesFailedMsg(reason) == <<"Failed to load currency codes:", reason>>
RatesFailedMsg(baseCode, reason) == <<"Failed to fetch rates for", baseCode, reason>>

\* Error messages of the failures: a rejected fetch, a non-OK status, a body
\* that is not JSON.
NetworkReason == "Failed to fetch"
HttpReason == "HTTP error! status: 500"
SyntaxReason == "Unexpected token"
CodesShapeReason == "Invalid API response structure."
RatesShapeReason == "Failed to retrieve exchange rates."

\* Variant: the catch block without the finally block.
CatchWithoutFinally(r, reason) ==
    showError(dom, IF r.kind = "codes" THEN CodesFailedMsg(reason)
                   ELSE RatesFailedMsg(r.base, reason))

\* catch and finally of either function
CatchFinally(r, reason) ==
    showLoading(showError(dom, IF r.kind = "codes" THEN CodesFailedMsg(reason)
                               ELSE RatesFailedMsg(r.base, reason)),
                FALSE)

\* Variant: a failed fetchRates is retried once more.
FailRetrying(r, reason) ==
    /\ dom' = CatchFinally(r, reason)
    /\ bootstrap' = IF r.kind = "codes" THEN "failed" ELSE bootstrap
    /\ ev' = Event(IF r.kind = "codes" THEN "codesFailed" ELSE "ratesFailed",
                   NoConv, TRUE)
    /\ IF r.kind = "rates" /\ nextId <= MaxRequests
       THEN /\ inflight' = (inflight \ {r}) \cup { Request(nextId, "rates", r.base) }
            /\ nextId' = nextId + 1
       ELSE /\ inflight' = inflight \ {r}
            /\ nextId' = nextId
    /\ UNCHANGED <<availableCurrencies, currentRates, ratesTag>>

\* Variant: a failed fetch also drops the rates held.
FailDroppingRates(r, reason) ==
    /\ dom' = CatchFinally(r, reason)
    /\ inflight' = inflight \ {r}
    /\ bootstrap' = IF r.kind = "codes" THEN "failed" ELSE bootstrap
    /\ ev' = Event(IF r.kind = "codes" THEN "codesFailed" ELSE "ratesFailed",
                   NoConv, TRUE)
    /\ currentRates' = <<>>
    /\ UNCHANGED <<availableCurrencies, nextId, ratesTag>>

\* A fetch that failed: catch, finally, and the function returns.
Fail(r, reason) ==
    /\ dom' = CatchFinally(r, reason)
    /\ inflight' = inflight \ {r}
    /\ bootstrap' = IF r.kind = "codes" THEN "failed" ELSE bootstrap
    /\ ev' = Event(IF r.kind = "codes" THEN "codesFailed" ELSE "ratesFailed",
                   NoConv, TRUE)
    /\ UNCHANGED <<availableCurrencies, currentRates, nextId, ratesTag>>

\* await fetch(...) rejects
FetchRejected(r) ==
    /\ r \in inflight
    /\ Fail(r, NetworkReason)

\* await fetch(...) resolves with response.ok false
FetchNotOk(r) ==
    /\ r \in inflight
    /\ Fail(r, HttpReason)

\* response.ok is true and await response.json() rejects
JsonRejected(r) ==
    /\ r \in inflight
    /\ Fail(r, SyntaxReason)

\* response.ok is true and the body has no rates
JsonWithoutRates(r) ==
    /\ r \in inflight
    /\ Fail(r, IF r.kind = "codes" THEN CodesShapeReason ELSE RatesShapeReason)

\* Variant: the bootstrap response is also kept as the rates of USD.
CodesLoadedSeedingRates(r, rates) ==
    /\ r \in inflight /\ r.kind = "codes"
    /\ availableCurrencies' = rates
    /\ currentRates' = rates
    /\ dom' = showLoading(populateDropdowns(dom, Keys(rates)), FALSE)
    /\ inflight' = inflight \ {r}
    /\ bootstrap' = "ok"
    /\ ev' = Event("codesLoaded", NoConv, FALSE)
    /\ UNCHANGED <<nextId, ratesTag>>

\* fetchCurrencyCodes: response.ok is true and the body has rates
CodesLoaded(r, rates) ==
    /\ r \in inflight /\ r.kind = "codes"
    /\ availableCurrencies' = rates
    /\ dom' = showLoading(populateDropdowns(dom, Keys(rates)), FALSE)
    /\ inflight' = inflight \ {r}
    /\ bootstrap' = "ok"
    /\ ev' = Event("codesLoaded", NoConv, FALSE)
    /\ UNCHANGED <<currentRates, nextId, ratesTag>>

\* Variant: the new rates are merged into the rates held (Object.assign).
RatesLoadedMerging(r, rates) ==
    LET merged == [i \in 1..Len(currentRates) |->
                      IF currentRates[i][1] \in KeySet(rates)
                      THEN <<currentRates[i][1], Lookup(rates, currentRates[i][1])>>
                      ELSE currentRates[i]]
                  \o SelectSeq(rates, LAMBDA p : p[1] \notin KeySet(currentRates))
        d1     == [dom EXCEPT !.convertDisabled = FALSE]
    IN /\ r \in inflight /\ r.kind = "rates"
       /\ currentRates' = merged
       /\ ratesTag' = [id |-> r.id, base |-> r.base]
       /\ dom' = showLoading(performConversion(d1, merged), FALSE)
       /\ ev' = EventWithBody("ratesLoaded", Conversion(d1, merged), FALSE, rates)
       /\ inflight' = inflight \ {r}
       /\ UNCHANGED <<availableCurrencies, nextId, bootstrap>>

\* fetchRates: response.ok is true and the body has rates
RatesLoaded(r, rates) ==
    /\ r \in inflight /\ r.kind = "rates"
    /\ currentRates' = rates
    /\ ratesTag' = [id |-> r.id, base |-> r.base]
    /\ LET d1 == [dom EXCEPT !.convertDisabled = FALSE]
       IN /\ dom' = showLoading(performConversion(d1, rates), FALSE)
          /\ ev' = EventWithBody("ratesLoaded", Conversion(d1, rates), FALSE, rates)
    /\ inflight' = inflight \ {r}
    /\ UNCHANGED <<availableCurrencies, nextId, bootstrap>>

-----------------------------------------------------------------------------

Next ==
    \/ \E a \in AmountInputs : SetAmount(a)
    \/ \E c \in Codes : SetTarget(c)
    \/ ConvertClick
    \/ swapCurrencies
    \/ \E c \in Codes : SourceChange(c)
    \/ \E r \in inflight : FetchRejected(r)
    \/ \E r \in inflight : FetchNotOk(r)
    \/ \E r \in inflight : JsonRejected(r)
    \/ \E r \in inflight : JsonWithoutRates(r)
    \/ \E r \in inflight : \E m \in CodesMaps(r.base) : CodesLoaded(r, m)
    \/ \E r \in inflight : \E m \in ResponseMaps(r.base) : RatesLoaded(r, m)

Spec == Init /\ [][Next]_vars

TypeOK ==
    /\ bootstrap \in {"pending", "ok", "failed"}
    /\ nextId \in 2..(MaxRequests + 1)
    /\ \A r \in inflight : r.id < nextId /\ r.kind \in {"codes", "rates"}
    /\ dom.sourceValue \in Codes \cup {NoValue}
    /\ dom.targetValue \in Codes \cup {NoValue}

-----------------------------------------------------------------------------
(* Vocabulary of the properties *)

\* The amount input holds a positive number.
AmountIsPositive == ~parseFloat(dom.amountInput).nan /\ parseFloat(dom.amountInput).val > 0

\* performConversion ran in the last step.
ConversionRan == ev.conv # "none"

\* The last step ran performConversion up to the lookup of line 173, and the
\* lookup found a rate.
LookupConverted ==
    /\ ConversionRan
    /\ AmountIsPositive
    /\ dom.sourceValue # dom.targetValue
    /\ Lookup(currentRates, dom.targetValue) # Undefined

Loading == dom.convertDisabled /\ ~dom.loadingHidden /\ dom.formHidden
Idle == ~dom.convertDisabled /\ dom.loadingHidden /\ ~dom.formHidden

-----------------------------------------------------------------------------
(* C1 .. C5 *)

\* C1: whenever performConversion converts through currentRates[targetCode],
\* the rates held were fetched for the source code selected at that moment.
C1_RatesMatchSource == LookupConverted => ratesTag.base = dom.sourceValue

\* C2: the response of an earlier-issued request never replaces the rates
\* applied from a later-issued one (request ids grow in order of issue).
C2_LaterRequestWins == [][ratesTag'.id >= ratesTag.id]_vars

\* C3: once the handling of a failed fetch has completed, the error banner is
\* visible and carries a message.
C3_FailureShowsBanner == ev.failed => (~dom.errorHidden /\ dom.errorText # <<>>)

\* C4: a convert click while the amount is not a positive number issues no
\* request.
C4_InvalidAmountIssuesNoFetch ==
    [][(ev'.op = "click" /\ ~AmountIsPositive) => inflight' = inflight]_vars

\* C5: after a failed bootstrap fetch the result panel never shows a
\* conversion.
C5_NotReadyAfterFailedBootstrap == bootstrap = "failed" => dom.resultHidden

-----------------------------------------------------------------------------
(* C6 .. C10 *)

\* C6: a step in which a fetch fails changes neither availableCurrencies nor
\* currentRates; availableCurrencies is written only by a successful
\* fetchCurrencyCodes and currentRates only by a successful fetchRates.
C6_FailedFetchWritesNothing ==
    [][ /\ ev'.failed => UNCHANGED <<availableCurrencies, currentRates>>
        /\ availableCurrencies' # availableCurrencies => ev'.op = "codesLoaded"
        /\ currentRates' # currentRates => ev'.op = "ratesLoaded" ]_vars

\* A fetchRates has just failed while currencies and rates were both held.
C6_Witness ==
    ev.failed /\ ev.op = "ratesFailed" /\ currentRates # <<>> /\ availableCurrencies # <<>>

\* C7: while a fetch is in flight the page is in Loading (button disabled,
\* indicator shown, form hidden).
C7_LoadingWhileInFlight == inflight # {} => Loading

\* C8: once every issued fetch has resolved, the loading indicator is hidden,
\* the form is visible and the convert button is enabled, after failures too.
C8_IdleWhenAllResolved == inflight = {} => Idle

\* The last of several fetches has just failed.
C8_Witness == inflight = {} /\ ev.op = "ratesFailed" /\ nextId > 3

\* C9: a conversion of a positive amount with source = target shows the
\* amount itself and a rate of exactly 1, whatever currentRates holds.
C9_SameCurrencyIsIdentity ==
    (ConversionRan /\ AmountIsPositive /\ dom.sourceValue = dom.targetValue) =>
        /\ ~dom.resultHidden
        /\ dom.resultAmount[2] = dom.targetValue
        /\ dom.resultAmount[3] = parseFloat(dom.amountInput).val
        /\ dom.exchangeRate = <<dom.sourceValue, Scale, dom.targetValue>>

\* USD was converted to USD while the rates held had been fetched for INR.
C9_Witness ==
    /\ ConversionRan /\ AmountIsPositive
    /\ dom.sourceValue = "USD" /\ dom.targetValue = "USD"
    /\ ratesTag.base = "INR" /\ Lookup(currentRates, "USD") = 1200

\* C10: a conversion of a positive amount with source # target and
\* currentRates[target] = r shows amount * r, rendered by formatCurrency, and
\* the rate r to four decimals; 100 at rate 0.012 shows 1.2.  (The amounts
\* are whole numbers of Scale units, so (a \div Scale) * r is the product.)
C10_ConvertedIsAmountTimesRate ==
    LookupConverted =>
        LET a == parseFloat(dom.amountInput).val
            r == Lookup(currentRates, dom.targetValue)
        IN /\ ~dom.resultHidden
           /\ dom.resultAmount = formatCurrency((a \div Scale) * r, dom.targetValue)
           /\ dom.exchangeRate = <<dom.sourceValue, toFixed4(r), dom.targetValue>>
           /\ (dom.amountInput = <<"1", "0", "0">> /\ r = 1200)
                 => dom.resultAmount[3] = 120000

\* After a swap from USD/INR and a successful fetch for INR, 100 INR were
\* converted at rates[USD] = 0.012.
C10_Witness ==
    /\ LookupConverted /\ ev.op = "ratesLoaded"
    /\ dom.sourceValue = "INR" /\ dom.targetValue = "USD"
    /\ ratesTag.base = "INR"
    /\ dom.amountInput = <<"1", "0", "0">>
    /\ dom.resultAmount[3] = 120000

-----------------------------------------------------------------------------
(* C11 .. C12 *)

\* C11 (as stated): a conversion whose amount is not a positive number changes
\* neither the result amount text, nor the rate line, nor the visibility of
\* the result panel.
C11_InvalidAmountMutatesNothing ==
    [][(ev'.conv # "none" /\ ~AmountIsPositive') =>
          /\ dom'.resultAmount = dom.resultAmount
          /\ dom'.exchangeRate = dom.exchangeRate
          /\ dom'.resultHidden = dom.resultHidden]_vars

\* C11 (amended): a conversion whose amount is not a positive number sets the
\* validation message as the error text, leaves the result amount text and
\* the rate line as they were, and hides the result panel.
C11_InvalidAmountHidesResult ==
    [][(ev'.conv # "none" /\ ~AmountIsPositive') =>
          /\ dom'.errorText = AmountInvalidMsg
          /\ dom'.resultAmount = dom.resultAmount
          /\ dom'.exchangeRate = dom.exchangeRate
          /\ dom'.resultHidden]_vars

\* A convert click with an invalid amount has hidden a result shown before,
\* and the banner shows the validation message.
C11_Witness ==
    /\ ev.op = "click" /\ ConversionRan /\ ~AmountIsPositive
    /\ dom.resultAmount # <<>> /\ dom.resultHidden
    /\ ~dom.errorHidden /\ dom.errorText = AmountInvalidMsg

\* C12: a conversion of a positive amount with source # target whose target is
\* not a key of currentRates sets the rate-unavailable message naming the
\* target and the source used as base, keeps the result amount text and the
\* rate line, and leaves the result panel hidden.
C12_MissingRateKeepsResult ==
    [][(/\ ev'.conv # "none"
        /\ AmountIsPositive'
        /\ dom'.sourceValue # dom'.targetValue
        /\ dom'.targetValue \notin KeySet(currentRates')) =>
          /\ dom'.errorText = <<"Exchange rate for", dom'.targetValue,
                                "not available when using", dom'.sourceValue, "as base.">>
          /\ dom'.resultAmount = dom.resultAmount
          /\ dom'.exchangeRate = dom.exchangeRate
          /\ dom'.resultHidden]_vars

\* A conversion has failed for a missing rate after a result had been shown.
C12_Witness ==
    /\ ConversionRan /\ AmountIsPositive
    /\ dom.sourceValue # dom.targetValue
    /\ dom.targetValue \notin KeySet(currentRates)
    /\ dom.resultAmount # <<>> /\ dom.exchangeRate # <<>> /\ dom.resultHidden

-----------------------------------------------------------------------------
(* C13 .. C14 *)

\* C13: every swap exchanges the selected source and target and issues exactly
\* one request, for the new source, whatever rates are held.  (Two swaps in a
\* row are two exchanges, which restore the selection.)
C13_SwapExchangesAndFetches ==
    [][ev'.op = "swap" =>
          /\ dom'.sourceValue = dom.targetValue
          /\ dom'.targetValue = dom.sourceValue
          /\ nextId' = nextId + 1
          /\ inflight' = inflight \cup
                { [id |-> nextId, kind |-> "rates", base |-> dom.targetValue] }
          /\ Cardinality(inflight') = Cardinality(inflight) + 1]_vars

\* A swap with source = target = USD has issued a request for USD although
\* the rates held were fetched for USD and start with USD.
C13_Witness ==
    /\ ev.op = "swap"
    /\ dom.sourceValue = "USD" /\ dom.targetValue = "USD"
    /\ ratesTag.base = "USD" /\ FirstKey(currentRates) = "USD"
    /\ \E r \in inflight : r.id = nextId - 1 /\ r.base = "USD"

\* C14: a source change or a convert click with a currency selected issues a
\* request exactly when the selected source differs from the base the held
\* rates were fetched for, or no rates are held.  (Stated for rates that
\* were fetched for a currency code.)
C14_FetchIffBaseDiffers ==
    [][(/\ ev'.op \in {"click", "change"}
        /\ dom'.sourceValue \in Codes
        /\ (ratesTag.id = 0 \/ ratesTag.base \in Codes)) =>
          ((nextId' # nextId) <=>
              (currentRates = <<>> \/ dom'.sourceValue # ratesTag.base))]_vars

-----------------------------------------------------------------------------
(* C15 .. C16 *)

\* The codes offered by the two selects.
Selectable == { dom.options[i] : i \in 1..Len(dom.options) }

\* C15 (as stated): after a successful bootstrap the selectable codes are the
\* keys of the returned rates plus USD, and the defaults USD / INR are applied
\* only if both codes are selectable.
C15_SelectableIsKeysPlusBase ==
    ev.op = "codesLoaded" =>
        /\ Selectable = KeySet(availableCurrencies) \cup {"USD"}
        /\ (dom.sourceValue = "USD" \/ dom.targetValue = "INR")
              => {"USD", "INR"} \subseteq Selectable

\* C15 (amended): after a successful bootstrap the selectable codes are exactly
\* the keys of the returned rates, and each default is applied on its own:
\* the source is USD if USD is a key and unselected otherwise, the target is
\* INR if INR is a key and unselected otherwise.
C15_SelectableIsKeys ==
    ev.op = "codesLoaded" =>
        /\ Selectable = KeySet(availableCurrencies)
        /\ dom.sourceValue = (IF "USD" \in KeySet(availableCurrencies) THEN "USD" ELSE NoValue)
        /\ dom.targetValue = (IF "INR" \in KeySet(availableCurrencies) THEN "INR" ELSE NoValue)

\* The bootstrap response listed INR and not USD.
C15_Witness ==
    /\ ev.op = "codesLoaded"
    /\ KeySet(availableCurrencies) = {"INR"}
    /\ dom.sourceValue = NoValue /\ dom.targetValue = "INR"

\* C16: when a fetchRates has succeeded, the outcome of the conversion it
\* re-runs is what the page shows: the result panel if the conversion
\* succeeded, the error banner with the conversion's message if it failed;
\* never neither of the two.
C16_CycleShowsOutcome ==
    ev.op = "ratesLoaded" =>
        IF ev.conv \in {"same", "computed"}
        THEN ~dom.resultHidden /\ dom.errorHidden
        ELSE ~dom.errorHidden /\ dom.resultHidden

-----------------------------------------------------------------------------
(* C17 .. C20 *)

Settles == {"codesLoaded", "codesFailed", "ratesLoaded", "ratesFailed"}
UserFetchers == {"click", "swap", "change"}

\* C17: a step issues a request only if it is a click, a swap or a source
\* change, and then it issues exactly one; a step in which a fetch resolves
\* issues none and removes that one fetch.  Requests are numbered from 1 (the
\* bootstrap), so nextId - 1 = 1 + the number of user steps that issued one.
C17_OnlyUserActionsIssue ==
    [][ /\ nextId' # nextId =>
              /\ ev'.op \in UserFetchers
              /\ nextId' = nextId + 1
              /\ \E r \in inflight' : r.id = nextId /\ inflight' = inflight \cup {r}
        /\ nextId' = nextId => inflight' \subseteq inflight
        /\ ev'.op \in Settles =>
              /\ nextId' = nextId
              /\ Cardinality(inflight') = Cardinality(inflight) - 1 ]_vars

\* A fetchRates has failed and nothing was issued in its place.
C17_Witness ==
    ev.op = "ratesFailed" /\ inflight = {} /\ nextId = 3

\* C18: a successful fetchRates response replaces currentRates by exactly the
\* rates of that response, whatever was held and whichever request it
\* answers, and no other step changes currentRates: after all fetches have
\* resolved it holds the rates of the successful response that resolved last.
C18_ResponseReplacesRates ==
    [][ /\ ev'.op = "ratesLoaded" => currentRates' = ev'.body
        /\ ev'.op # "ratesLoaded" => currentRates' = currentRates ]_vars

\* Two fetchRates were in flight; the later-issued one resolved first and its
\* rates produced a result; the earlier-issued one resolved last with an empty
\* rates object, and the target is no longer available.
C18_Witness ==
    /\ ev.op = "ratesLoaded" /\ ev.body = <<>> /\ currentRates = <<>>
    /\ ev.conv = "unavailable"
    /\ dom.resultAmount # <<>>
    /\ ratesTag.id = 2 /\ nextId = 4 /\ inflight = {}

\* C19: the error banner and the result panel are never visible together.
C19_BannerAndResultExclusive == ~(~dom.errorHidden /\ ~dom.resultHidden)

\* An error is shown and has hidden a result that had been shown before.
C19_Witness ==
    ~dom.errorHidden /\ dom.resultHidden /\ dom.resultAmount # <<>>

\* C20: availableCurrencies changes only in a successful bootstrap step and
\* currentRates only in a successful fetchRates step; the bootstrap leaves
\* currentRates empty, and a convert click while it is empty issues a request
\* for the selected source.
C20_DisjointWriters ==
    [][ /\ availableCurrencies' # availableCurrencies => ev'.op = "codesLoaded"
        /\ currentRates' # currentRates => ev'.op = "ratesLoaded"
        /\ ev'.op = "codesLoaded" => currentRates' = currentRates
        /\ ratesTag'.id = 0 => currentRates' = <<>>
        /\ (ev'.op = "click" /\ currentRates = <<>>) =>
              /\ nextId' = nextId + 1
              /\ \E r \in inflight' \ inflight : r.base = dom.sourceValue ]_vars

\* The first convert click after a successful bootstrap, with source USD, has
\* issued a request for USD.
C20_Witness ==
    /\ ev.op = "click" /\ bootstrap = "ok" /\ availableCurrencies # <<>>
    /\ currentRates = <<>> /\ ratesTag.id = 0
    /\ dom.sourceValue = "USD" /\ nextId = 3
    /\ \E r \in inflight : r.id = 2 /\ r.base = "USD"

====
